---- MODULE Spec2Model ----
(***************************************************************************)
(* Migration engine of propane/butane: the on-disk migration chain         *)
(* (propane_core/src/migrations.rs), the bookkeeping table                 *)
(* propane_migrations in the target database, and the operations that      *)
(* create, walk and apply migrations.                                      *)
(*                                                                         *)
(* Conventions.                                                            *)
(*   Option<T>      a sequence of length 0 (None) or 1 (Some).             *)
(*   Result<T>      a record [tag, val]: tag "Ok" with the value, or tag   *)
(*                  "Err" with val = <<error kind>>.  A backward walk over *)
(*                  a cyclic predecessor graph never returns; that outcome *)
(*                  is the tag "Diverges".                                 *)
(*   Vec<Migration> a sequence of migration names (Migration equality is   *)
(*                  equality of names, migrations.rs:153-157).             *)
(***************************************************************************)
EXTENDS Naturals, Sequences, FiniteSets

\* ------------------------------------------------------------------ bounds

\* Number of distinct migration names a caller may pass to create_migration.
MaxNames ==
    2

NameSeq ==
    <<"m1", "m2", "m3", "m4", "m5", "m6">>

\* The tables the build can declare, in declaration order (the schema of the
\* chain's scenarios: the one table Blog).
TableSeq ==
    <<"Blog">>

\* ------------------------------------------------------------- value space

\* get_current(): the synthetic migration is named "current".
Current ==
    "current"

MigNames ==
    {NameSeq[i] : i \in 1..MaxNames}

\* Every name create_migration can be given: a directory under the root.
AllNames ==
    MigNames \cup {Current}

UserTables ==
    {TableSeq[i] : i \in 1..Len(TableSeq)}

\* conn.backend_name(): the backends a connection can be of.
Backends ==
    {"sqlite", "pg"}

\* backend.get_name() of the backend the migrations are created with
\* (db::sqlite_backend() in the command line).
CreateBackends ==
    {"sqlite"}

\* Option::None of a name (MigrationInfo.from_name, MigrationsState.latest).
None ==
    "None"

\* A file that does not exist (fs.read fails with NotFound).
NoFile ==
    "NoFile"

\* A state.json that exists and cannot be read or parsed (fs.read fails with
\* another kind of error, or serde_json rejects the contents).
Unreadable ==
    "Unreadable"

Ok(v) ==
    [tag |-> "Ok", val |-> v]

Err(kind) ==
    [tag |-> "Err", val |-> <<kind>>]

Diverges ==
    [tag |-> "Diverges", val |-> <<>>]

\* `?` on a std::io::Error: converted into the crate's error type.
IoError ==
    Err("Io")

RECURSIVE Reverse(_)
Reverse(s) ==
    IF s = <<>> THEN <<>> ELSE Append(Reverse(Tail(s)), Head(s))

\* ------------------------------------------------------------------ schema

\* AColumn::new(name, sqltype, nullable, pk, default)
AColumn(name, sqltype, nullable, pk) ==
    [name |-> name, sqltype |-> sqltype, nullable |-> nullable, pk |-> pk,
     default |-> None]

\* A user table of the build: one primary-key column.
ATable(name) ==
    [name |-> name, columns |-> <<AColumn("id", "Int", FALSE, TRUE)>>]

\* The bookkeeping table: propane_migrations(name TEXT PRIMARY KEY).
migrations_table ==
    [name |-> "propane_migrations",
     columns |-> <<AColumn("name", "Text", FALSE, TRUE)>>]

AddTable(t) ==
    [op |-> "AddTable", table |-> t]

RemoveTable(name) ==
    [op |-> "RemoveTable", table |-> [name |-> name, columns |-> <<>>]]

\* An ADB is the set of its table names; ADB::new() is {}.
ADBs ==
    SUBSET UserTables

\* The tables of `s`, in the declaration order of TableSeq.
RECURSIVE TablesInOrder(_, _)
TablesInOrder(s, i) ==
    IF i > Len(TableSeq) THEN <<>>
    ELSE (IF TableSeq[i] \in s THEN <<TableSeq[i]>> ELSE <<>>)
         \o TablesInOrder(s, i + 1)

RECURSIVE MapSeq(_, _)
MapSeq(s, kind) ==
    IF s = <<>> THEN <<>>
    ELSE <<IF kind = "AddTable" THEN AddTable(ATable(Head(s)))
           ELSE RemoveTable(Head(s))>> \o MapSeq(Tail(s), kind)

\* adb::diff(from, to): tables only in `to` are added, tables only in `from`
\* are removed; diff(a, a) is empty.
adb_diff(from_db, to_db) ==
    MapSeq(TablesInOrder(to_db \ from_db, 1), "AddTable")
    \o MapSeq(TablesInOrder(from_db \ to_db, 1), "RemoveTable")

\* backend.create_migration_sql(base, ops): the script is determined by the
\* base schema and the operation list.
create_migration_sql(base, ops) ==
    [base |-> base, ops |-> ops]

\* ------------------------------------------------------------------- state

VARIABLES
    dirs,         \* directories that exist under the migrations root
    tableFiles,   \* per directory: the tables of its *.table files
    info,         \* per directory: info.json's from_name, or NoFile
    sql,          \* per directory and backend: <backend>_up.sql, _down.sql
    stateJson,    \* state.json: the name in `latest`, or NoFile
    tableExists,  \* database: propane_migrations exists
    tableRows,    \* database: per name, its number of rows in propane_migrations
    executed,     \* database: migrations whose forward SQL ran successfully
    connBackend,  \* conn.backend_name()
    procs,        \* per command-line process: where its migrate run stands
    ret           \* the last call: its name, arguments and result

vars ==
    <<dirs, tableFiles, info, sql, stateJson, tableExists, tableRows,
      executed, connBackend, procs, ret>>

fsVars ==
    <<dirs, tableFiles, info, sql, stateJson>>

dbVars ==
    <<tableExists, tableRows, executed, connBackend>>

\* The names that have a row in propane_migrations (what conn.query returns,
\* as PropaneMigration values).
rows ==
    {n \in AllNames : tableRows[n] > 0}

\* conn.insert_or_replace(TABLE, COLUMNS, [name]): the row replaces the row
\* with the same primary key, if there is one.
insert_or_replace(table, name) ==
    [table EXCEPT ![name] = 1]

\* The processes of the command line that run `migrate`.
Procs ==
    {"p1", "p2"}

\* A process that has not called migrate.
Idle ==
    [pc |-> "idle", to_apply |-> <<>>, i |-> 0]

Call(op, arg, res) ==
    [op |-> op, arg |-> arg, res |-> res]

NoSql ==
    [up |-> <<>>, down |-> <<>>]

\* from_root(path) over an empty directory, and a fresh database.
Init ==
    /\ dirs = {}
    /\ tableFiles = [n \in AllNames |-> {}]
    /\ info = [n \in AllNames |-> NoFile]
    /\ sql = [n \in AllNames |-> [b \in Backends |-> NoSql]]
    /\ stateJson = NoFile
    /\ tableExists = FALSE
    /\ tableRows = [n \in AllNames |-> 0]
    /\ executed = {}
    /\ connBackend \in Backends
    /\ procs = [p \in Procs |-> Idle]
    /\ ret = Call("from_root", <<>>, Ok(<<>>))

\* ------------------------------------------------------------ chain reads

\* Migrations::get_state as Result<MigrationsState>, the state being its
\* field `latest`: NotFound yields MigrationsState::new(), any other failure
\* is the error.
get_state ==
    IF stateJson = NoFile THEN Ok(<<None>>)
    ELSE IF stateJson = Unreadable THEN IoError
    ELSE Ok(<<stateJson>>)

\* Migrations::get_latest as Option<Migration>: unwrap_or(None) on the
\* result of get_state.
get_latest ==
    IF get_state.tag = "Ok" /\ get_state.val[1] # None
    THEN <<get_state.val[1]>> ELSE <<>>

\* Migration::get_db: the ADB of the directory's *.table files (a table has
\* no deferred type here, so resolve_types succeeds).
get_db(m) ==
    tableFiles[m]

\* Migration::get_from_migration as Result<Option<Migration>>.
get_from_migration(m) ==
    IF info[m] = NoFile THEN IoError
    ELSE IF info[m] = None THEN Ok(<<>>)
    ELSE Ok(<<info[m]>>)

\* The Migration values a caller can hold: get_current(), and whatever
\* create_migration, get_latest or get_from_migration have returned.
Handles ==
    {Current} \cup {n \in AllNames : info[n] # NoFile}

\* The `from` arguments a caller can supply.
FromArgs ==
    {<<>>} \cup {<<h>> : h \in Handles}

\* A deterministic walk that has pushed every name and still has a node to
\* visit has repeated a node: it loops forever.
Fuel ==
    Cardinality(AllNames)

RECURSIVE AllWalk(_, _, _)
AllWalk(last, accum, fuel) ==
    IF last = <<>> THEN Ok(Reverse(accum))
    ELSE IF fuel = 0 THEN Diverges
    ELSE LET r == get_from_migration(last[1])
         IN  IF r.tag # "Ok" THEN r
             ELSE AllWalk(r.val, Append(accum, last[1]), fuel - 1)

\* Migrations::get_all_migrations
get_all_migrations ==
    AllWalk(get_latest, <<>>, Fuel)

RECURSIVE SinceWalk(_, _, _, _)
SinceWalk(since, last, accum, fuel) ==
    IF last = <<>> THEN Err("MigrationError")
    ELSE IF last[1] = since THEN Ok(Reverse(accum))
    ELSE IF fuel = 0 THEN Diverges
    ELSE LET r == get_from_migration(last[1])
         IN  IF r.tag # "Ok" THEN r
             ELSE SinceWalk(since, r.val, Append(accum, last[1]), fuel - 1)

\* Migrations::get_migrations_since
get_migrations_since(since) ==
    SinceWalk(since, get_latest, <<>>, Fuel)

\* conn.query(TABLE, COLUMNS, None, None): the database decides whether the
\* read succeeds; it cannot succeed before the table exists.
QueryOutcomes ==
    {"ok", "err"}

RECURSIVE LastAppliedWalk(_, _, _)
LastAppliedWalk(m_opt, migrations, fuel) ==
    IF m_opt = <<>> THEN Ok(<<>>)
    ELSE IF ~(m_opt[1] \in migrations) THEN Ok(m_opt)
    ELSE IF fuel = 0 THEN Diverges
    ELSE LET r == get_from_migration(m_opt[1])
         IN  IF r.tag # "Ok" THEN r
             ELSE LastAppliedWalk(r.val, migrations, fuel - 1)

\* Migrations::get_last_applied_migration; q is the outcome of conn.query.
get_last_applied_migration(q) ==
    IF q = "err" THEN Err("Backend")
    ELSE LastAppliedWalk(get_latest, rows, Fuel)

\* get_unapplied_migrations with the read failure propagated to the caller.
get_unapplied_migrations_Propagate(q) ==
    LET r == get_last_applied_migration(q)
    IN  IF r.tag = "Diverges" THEN Diverges
        ELSE IF r.tag = "Err" THEN r
        ELSE IF r.val = <<>> THEN get_all_migrations
        ELSE get_migrations_since(r.val[1])

\* Migrations::get_unapplied_migrations; q is the outcome of conn.query.
get_unapplied_migrations(q) ==
    LET r == get_last_applied_migration(q)
    IN  IF r.tag = "Diverges" THEN Diverges
        ELSE IF r.tag = "Err" THEN get_all_migrations
        ELSE IF r.val = <<>> THEN get_all_migrations
        ELSE get_migrations_since(r.val[1])

\* Migration::read_sql(backend, direction) as Result<script>.
read_sql(m, backend, direction) ==
    IF sql[m][backend][direction] = <<>> THEN IoError
    ELSE Ok(sql[m][backend][direction])

\* Migration::up_sql
up_sql(m, backend) ==
    read_sql(m, backend, "up")

\* ----------------------------------------------------------------- actions

\* The build writes the schema it extracted into current/<table>.table.
Build(db) ==
    /\ dirs' = dirs \cup {Current}
    /\ tableFiles' = [tableFiles EXCEPT ![Current] = db]
    /\ ret' = Call("build", <<>>, Ok(<<>>))
    /\ UNCHANGED <<info, sql, stateJson, dbVars, procs>>

\* create_migration writing info.json before it looks at the diff.
CreateMigration_InfoFirst(backend, name, from) ==
    LET from_name == IF from = <<>> THEN None ELSE from[1]
        from_none == from = <<>>
        dirs1     == IF from_none THEN dirs ELSE dirs \cup {from[1]}
        from_db   == IF from_none THEN {} ELSE get_db(from[1])
        dirs2     == dirs1 \cup {Current}
        to_db     == get_db(Current)
        ops0      == adb_diff(from_db, to_db)
        ops       == IF from_none THEN Append(ops0, AddTable(migrations_table))
                     ELSE ops0
        up        == create_migration_sql(from_db, ops)
        down      == create_migration_sql(from_db, adb_diff(to_db, from_db))
        state     == get_state
        arg       == <<name, from_name>>
    IN  IF ops0 = <<>>
        THEN /\ dirs' = dirs2 \cup {name}
             /\ info' = [info EXCEPT ![name] = from_name]
             /\ ret' = Call("create_migration", arg, Ok(<<>>))
             /\ UNCHANGED <<tableFiles, sql, stateJson, dbVars, procs>>
        ELSE /\ dirs' = dirs2 \cup {name}
             /\ sql' = [sql EXCEPT ![name][backend] =
                            [up |-> <<up>>, down |-> <<down>>]]
             /\ info' = [info EXCEPT ![name] = from_name]
             /\ IF state.tag # "Ok"
                THEN /\ stateJson' = stateJson
                     /\ ret' = Call("create_migration", arg, state)
                ELSE /\ stateJson' = IF \/ state.val[1] = None
                                        \/ state.val[1] = from_name
                                     THEN name ELSE stateJson
                     /\ ret' = Call("create_migration", arg, Ok(<<name>>))
             /\ UNCHANGED <<tableFiles, dbVars, procs>>

\* create_migration adding the bookkeeping table whatever `from` is.
CreateMigration_AlwaysBookkeeping(backend, name, from) ==
    LET from_name == IF from = <<>> THEN None ELSE from[1]
        from_none == from = <<>>
        dirs1     == IF from_none THEN dirs ELSE dirs \cup {from[1]}
        from_db   == IF from_none THEN {} ELSE get_db(from[1])
        dirs2     == dirs1 \cup {Current}
        to_db     == get_db(Current)
        ops0      == adb_diff(from_db, to_db)
        ops       == Append(ops0, AddTable(migrations_table))
        up        == create_migration_sql(from_db, ops)
        down      == create_migration_sql(from_db, adb_diff(to_db, from_db))
        state     == get_state
        arg       == <<name, from_name>>
    IN  IF ops0 = <<>>
        THEN /\ dirs' = dirs2
             /\ ret' = Call("create_migration", arg, Ok(<<>>))
             /\ UNCHANGED <<tableFiles, info, sql, stateJson, dbVars,
                          procs>>
        ELSE /\ dirs' = dirs2 \cup {name}
             /\ sql' = [sql EXCEPT ![name][backend] =
                            [up |-> <<up>>, down |-> <<down>>]]
             /\ info' = [info EXCEPT ![name] = from_name]
             /\ IF state.tag # "Ok"
                THEN /\ stateJson' = stateJson
                     /\ ret' = Call("create_migration", arg, state)
                ELSE /\ stateJson' = IF \/ state.val[1] = None
                                        \/ state.val[1] = from_name
                                     THEN name ELSE stateJson
                     /\ ret' = Call("create_migration", arg, Ok(<<name>>))
             /\ UNCHANGED <<tableFiles, dbVars, procs>>

\* create_migration without the guard on state.latest: every created
\* migration becomes the tip.
CreateMigration_AlwaysAdvance(backend, name, from) ==
    LET from_name == IF from = <<>> THEN None ELSE from[1]
        from_none == from = <<>>
        dirs1     == IF from_none THEN dirs ELSE dirs \cup {from[1]}
        from_db   == IF from_none THEN {} ELSE get_db(from[1])
        dirs2     == dirs1 \cup {Current}
        to_db     == get_db(Current)
        ops0      == adb_diff(from_db, to_db)
        ops       == IF from_none THEN Append(ops0, AddTable(migrations_table))
                     ELSE ops0
        up        == create_migration_sql(from_db, ops)
        down      == create_migration_sql(from_db, adb_diff(to_db, from_db))
        state     == get_state
        arg       == <<name, from_name>>
    IN  IF ops0 = <<>>
        THEN /\ dirs' = dirs2
             /\ ret' = Call("create_migration", arg, Ok(<<>>))
             /\ UNCHANGED <<tableFiles, info, sql, stateJson, dbVars,
                          procs>>
        ELSE /\ dirs' = dirs2 \cup {name}
             /\ sql' = [sql EXCEPT ![name][backend] =
                            [up |-> <<up>>, down |-> <<down>>]]
             /\ info' = [info EXCEPT ![name] = from_name]
             /\ IF state.tag # "Ok"
                THEN /\ stateJson' = stateJson
                     /\ ret' = Call("create_migration", arg, state)
                ELSE /\ stateJson' = name
                     /\ ret' = Call("create_migration", arg, Ok(<<name>>))
             /\ UNCHANGED <<tableFiles, dbVars, procs>>

\* Migrations::create_migration(backend, name, from)
CreateMigration(backend, name, from) ==
    LET from_name == IF from = <<>> THEN None ELSE from[1]
        from_none == from = <<>>
        \* get_db() ensures the directory it lists
        dirs1     == IF from_none THEN dirs ELSE dirs \cup {from[1]}
        from_db   == IF from_none THEN {} ELSE get_db(from[1])
        dirs2     == dirs1 \cup {Current}
        to_db     == get_db(Current)
        ops0      == adb_diff(from_db, to_db)
        ops       == IF from_none THEN Append(ops0, AddTable(migrations_table))
                     ELSE ops0
        up        == create_migration_sql(from_db, ops)
        down      == create_migration_sql(from_db, adb_diff(to_db, from_db))
        state     == get_state
        arg       == <<name, from_name>>
    IN  IF ops0 = <<>>
        THEN /\ dirs' = dirs2
             /\ ret' = Call("create_migration", arg, Ok(<<>>))
             /\ UNCHANGED <<tableFiles, info, sql, stateJson, dbVars,
                          procs>>
        ELSE /\ dirs' = dirs2 \cup {name}
             /\ sql' = [sql EXCEPT ![name][backend] =
                            [up |-> <<up>>, down |-> <<down>>]]
             /\ info' = [info EXCEPT ![name] = from_name]
             /\ IF state.tag # "Ok"
                THEN /\ stateJson' = stateJson
                     /\ ret' = Call("create_migration", arg, state)
                ELSE /\ stateJson' = IF \/ state.val[1] = None
                                        \/ state.val[1] = from_name
                                     THEN name ELSE stateJson
                     /\ ret' = Call("create_migration", arg, Ok(<<name>>))
             /\ UNCHANGED <<tableFiles, dbVars, procs>>

GetAllMigrations ==
    /\ ret' = Call("get_all_migrations", <<>>, get_all_migrations)
    /\ UNCHANGED <<fsVars, dbVars, procs>>

GetMigrationsSince(since) ==
    /\ ret' = Call("get_migrations_since", <<since>>,
                   get_migrations_since(since))
    /\ UNCHANGED <<fsVars, dbVars, procs>>

GetLastAppliedMigration(q) ==
    /\ q = "ok" => tableExists
    /\ ret' = Call("get_last_applied_migration", <<q>>,
                   get_last_applied_migration(q))
    /\ UNCHANGED <<fsVars, dbVars, procs>>

GetUnappliedMigrations(q) ==
    /\ q = "ok" => tableExists
    /\ ret' = Call("get_unapplied_migrations", <<q>>,
                   get_unapplied_migrations(q))
    /\ UNCHANGED <<fsVars, dbVars, procs>>

\* The script creates the bookkeeping table.
AddsMigrationsTable(script) ==
    \E i \in 1..Len(script.ops) : script.ops[i] = AddTable(migrations_table)

\* apply writing the bookkeeping row whether or not the forward SQL ran.
Apply_RecordAnyway(m, execOk, insertOk) ==
    LET script == up_sql(m, connBackend)
        exists == tableExists \/ (execOk /\ AddsMigrationsTable(script.val[1]))
        arg    == <<m>>
    IN  IF script.tag # "Ok"
        THEN /\ ret' = Call("apply", arg, script)
             /\ UNCHANGED <<fsVars, dbVars, procs>>
        ELSE /\ executed' = IF execOk THEN executed \cup {m} ELSE executed
             /\ tableExists' = exists
             /\ IF insertOk /\ exists
                THEN tableRows' = insert_or_replace(tableRows, m)
                ELSE tableRows' = tableRows
             /\ ret' = Call("apply", arg,
                            IF execOk /\ insertOk /\ exists THEN Ok(<<>>)
                            ELSE Err("Backend"))
             /\ UNCHANGED <<fsVars, connBackend, procs>>

\* Migration::apply(conn).  execOk and insertOk are the database's answers to
\* conn.execute and conn.insert_or_replace; the insert cannot succeed while
\* propane_migrations does not exist.
Apply(m, execOk, insertOk) ==
    LET script == up_sql(m, connBackend)
        exists == tableExists \/ AddsMigrationsTable(script.val[1])
        arg    == <<m>>
    IN  IF script.tag # "Ok"
        THEN /\ ret' = Call("apply", arg, script)
             /\ UNCHANGED <<fsVars, dbVars, procs>>
        ELSE IF ~execOk
        THEN /\ ret' = Call("apply", arg, Err("Backend"))
             /\ UNCHANGED <<fsVars, dbVars, procs>>
        ELSE /\ executed' = executed \cup {m}
             /\ tableExists' = exists
             /\ IF insertOk /\ exists
                THEN /\ tableRows' = insert_or_replace(tableRows, m)
                     /\ ret' = Call("apply", arg, Ok(<<>>))
                ELSE /\ tableRows' = tableRows
                     /\ ret' = Call("apply", arg, Err("Backend"))
             /\ UNCHANGED <<fsVars, connBackend, procs>>

Next ==
    \/ \E db \in ADBs : Build(db)
    \/ \E b \in CreateBackends, n \in AllNames, f \in FromArgs :
          CreateMigration(b, n, f)
    \/ GetAllMigrations
    \/ \E m \in Handles : GetMigrationsSince(m)
    \/ \E q \in QueryOutcomes : GetLastAppliedMigration(q)
    \/ \E q \in QueryOutcomes : GetUnappliedMigrations(q)
    \/ \E m \in Handles, e \in BOOLEAN, i \in BOOLEAN : Apply(m, e, i)

Spec ==
    Init /\ [][Next]_vars

\* The chain on a database that no migration has been applied to: the
\* operations of the chain alone.
NextChain ==
    \/ \E db \in ADBs : Build(db)
    \/ \E b \in CreateBackends, n \in AllNames, f \in FromArgs :
          CreateMigration(b, n, f)
    \/ GetAllMigrations
    \/ \E m \in Handles : GetMigrationsSince(m)
    \/ \E q \in QueryOutcomes : GetUnappliedMigrations(q)

\* The connection of the command line: sqlite.
InitChain ==
    Init /\ connBackend = "sqlite"

SpecChain ==
    InitChain /\ [][NextChain]_vars

\* ------------------------------------------------- vocabulary of the claims

MaxOf(S) ==
    CHOOSE x \in S : \A y \in S : y <= x

Elems(s) ==
    {s[i] : i \in 1..Len(s)}

\* The names the predecessor pointers lead to from `front`, `front` included.
RECURSIVE Closure(_)
Closure(front) ==
    LET next == {info[n] : n \in front} \ {None, NoFile}
    IN  IF next \subseteq front THEN front ELSE Closure(front \cup next)

\* The nodes of the chain: everything the backward walk from the tip meets.
ChainNodes ==
    IF get_latest = <<>> THEN {} ELSE Closure({get_latest[1]})

\* The chain is a finite list root..tip: the walk from the tip ends at a root.
ChainIsList ==
    get_all_migrations.tag = "Ok"

TheChain ==
    get_all_migrations.val

IndexIn(s, m) ==
    CHOOSE i \in 1..Len(s) : s[i] = m

\* Exactly the first k migrations of the chain s have a row.
FirstKApplied(s, k) ==
    \A i \in 1..Len(s) : (s[i] \in rows) <=> (i <= k)

\* The tip-most node of the chain s that has a row, as an Option.
TipMostApplied(s) ==
    LET applied == {i \in 1..Len(s) : s[i] \in rows}
    IN  IF applied = {} THEN <<>> ELSE <<s[MaxOf(applied)]>>

\* ------------------------------------------------------------------ claims

\* C1: for a chain m1..mn of which exactly the first k (1 <= k <= n) have a
\* row in propane_migrations, get_unapplied_migrations returns exactly
\* [m(k+1), ..., mn]; when all are applied it returns the empty list.
C1_UnappliedIsSuffix ==
    (/\ ret.op = "get_unapplied_migrations"
     /\ ret.arg = <<"ok">>
     /\ ChainIsList)
    => \A k \in 1..Len(TheChain) :
          FirstKApplied(TheChain, k)
          => ret.res = Ok(SubSeq(TheChain, k + 1, Len(TheChain)))

\* C2: get_last_applied_migration returns the first node, walking backward
\* from the tip, whose name is present in propane_migrations, and None when
\* no chain node is present.
C2_LastAppliedIsPresent ==
    (/\ ret.op = "get_last_applied_migration"
     /\ ret.arg = <<"ok">>
     /\ ChainIsList)
    => ret.res = Ok(TipMostApplied(TheChain))

\* C3: when the read of propane_migrations fails, get_unapplied_migrations
\* does not fail: it returns what get_all_migrations returns.
C3_ReadFailureReturnsAll ==
    (ret.op = "get_unapplied_migrations" /\ ret.arg = <<"err">>)
    => (ret.res.tag # "Err" /\ ret.res = get_all_migrations)

\* C3 happens: the read failed and the whole chain of two came back.
C3_Witness ==
    /\ ret.op = "get_unapplied_migrations"
    /\ ret.arg = <<"err">>
    /\ ret.res.tag = "Ok"
    /\ Len(ret.res.val) = 2
    /\ ret.res.val[2] = stateJson

\* C4: when propane_migrations is readable and none of its rows names a
\* chain node, get_unapplied_migrations returns all migrations, root first.
C4_NoMatchingRowReturnsAll ==
    (/\ ret.op = "get_unapplied_migrations"
     /\ ret.arg = <<"ok">>
     /\ ChainIsList
     /\ rows \cap Elems(TheChain) = {})
    => ret.res = Ok(TheChain)

FromName(f) ==
    IF f = <<>> THEN None ELSE f[1]

\* diff(from_db, to_db) is empty for the `from` argument f.
EmptyDiff(f) ==
    adb_diff(IF f = <<>> THEN {} ELSE get_db(f[1]), get_db(Current)) = <<>>

\* C5: a create_migration call that creates a migration sets state.latest
\* to the new name exactly when the state.latest read before equals the name
\* of `from` (or both are absent); otherwise state.json is untouched and the
\* new migration is an orphan that get_all_migrations does not return.
C5_ForkGuard ==
    [][ret'.op = "create_migration" =>
       \A b \in CreateBackends, n \in AllNames, f \in FromArgs :
         (ret'.arg = <<n, FromName(f)>> /\ CreateMigration(b, n, f)
            /\ ret'.res = Ok(<<n>>))
         => IF get_state = Ok(<<FromName(f)>>)
            THEN stateJson' = n
            ELSE /\ stateJson' = stateJson
                 /\ ~(n \in ChainNodes')]_vars

\* C6 as stated: when diff(from_db, to_db) is empty, create_migration
\* returns None, writes no file, creates no directory under the new name and
\* leaves state.latest unchanged.
C6_NoOpCreate_AsStated ==
    [][ret'.op = "create_migration" =>
       \A b \in CreateBackends, n \in AllNames, f \in FromArgs :
         (ret'.arg = <<n, FromName(f)>> /\ CreateMigration(b, n, f)
            /\ EmptyDiff(f))
         => /\ ret'.res = Ok(<<>>)
            /\ UNCHANGED <<tableFiles, info, sql, stateJson>>
            /\ (n \in dirs' => n \in dirs)]_vars

\* C6 amended: when diff(from_db, to_db) is empty, create_migration returns
\* None, writes no file, leaves state.latest unchanged and creates no
\* directory other than `current`, which reading the current schema ensures.
C6_NoOpCreate ==
    [][ret'.op = "create_migration" =>
       \A b \in CreateBackends, n \in AllNames, f \in FromArgs :
         (ret'.arg = <<n, FromName(f)>> /\ CreateMigration(b, n, f)
            /\ EmptyDiff(f))
         => /\ ret'.res = Ok(<<>>)
            /\ UNCHANGED <<tableFiles, info, sql, stateJson>>
            /\ dirs' \subseteq dirs \cup {Current}]_vars

\* C6 happens: a create from an existing migration found no change; the tip
\* stays, and the new name has no directory.
C6_Witness ==
    /\ ret.op = "create_migration"
    /\ ret.res = Ok(<<>>)
    /\ ret.arg[1] \in MigNames
    /\ ret.arg[2] \in MigNames
    /\ ~(ret.arg[1] \in dirs)
    /\ stateJson \in MigNames

\* C7: get_all_migrations returns the nodes reachable from state.latest,
\* root first: the first has from_name = null, the last is the tip, each
\* element's from_name is the element before it; empty when there is no tip.
C7_AllMigrationsRootFirst ==
    ret.op = "get_all_migrations"
    => /\ ret.res.tag = "Ok"
       /\ Elems(ret.res.val) = ChainNodes
       /\ get_latest = <<>> => ret.res.val = <<>>
       /\ get_latest # <<>> =>
            /\ ret.res.val # <<>>
            /\ info[ret.res.val[1]] = None
            /\ ret.res.val[Len(ret.res.val)] = get_latest[1]
            /\ \A i \in 1..(Len(ret.res.val) - 1) :
                  info[ret.res.val[i + 1]] = ret.res.val[i]

\* C8: get_migrations_since(m) returns the nodes strictly after m up to the
\* tip, oldest first, when the backward walk from the tip meets m, and fails
\* with MigrationError when it never does.
C8_MigrationsSince ==
    ret.op = "get_migrations_since"
    => IF ret.arg[1] \in ChainNodes
       THEN /\ ret.res.tag = "Ok"
            /\ ChainIsList =>
                 ret.res.val = SubSeq(TheChain,
                                      IndexIn(TheChain, ret.arg[1]) + 1,
                                      Len(TheChain))
       ELSE ret.res = Err("MigrationError")

\* C9: in every reachable state a chain migration has a row in
\* propane_migrations if and only if its forward SQL has been executed
\* successfully.
C9_BookkeepingConsistent ==
    \A m \in ChainNodes : (m \in rows) <=> (m \in executed)

\* C10: apply on a migration without forward SQL for conn.backend_name()
\* fails with MigrationError, executes nothing and writes no row.
C10_MissingSqlIsMigrationError ==
    [][ret'.op = "apply" =>
       \A m \in Handles, e \in BOOLEAN, i \in BOOLEAN :
         (ret'.arg = <<m>> /\ Apply(m, e, i)
            /\ sql[m][connBackend].up = <<>>)
         => /\ ret'.res = Err("MigrationError")
            /\ UNCHANGED <<tableExists, rows, executed>>]_vars

\* The node n lies on a cycle of the predecessor pointers.
OnCycle(n) ==
    info[n] \in AllNames /\ n \in Closure({info[n]})

\* C11: after any sequence of create_migration calls the predecessor graph
\* of the info.json files has no cycle, and the backward walks of
\* get_all_migrations, get_migrations_since and get_last_applied_migration
\* terminate.
C11_NoCycle ==
    /\ \A n \in AllNames : ~OnCycle(n)
    /\ ret.op \in {"get_all_migrations", "get_migrations_since",
                   "get_last_applied_migration"}
       => ret.res.tag # "Diverges"

\* ------------------------------------------------------- the command line

\* No migrate run has started: the tree is still being prepared.
AllIdle ==
    \A p \in Procs : procs[p].pc = "idle"

\* The build, before the migrate runs.
CliBuild(db) ==
    AllIdle /\ Build(db)

\* make_migration, before the migrate runs: a migration named `name` from
\* the tip to the current schema, with the sqlite backend.
MakeMigration(name) ==
    AllIdle /\ CreateMigration("sqlite", name, get_latest)

\* migrate, up to the loop: the list of migrations to apply is what
\* get_unapplied_migrations returns.  A walk that never returns leaves the
\* process inside the call; a failed call leaves the loop nothing to do.
MigrateStart(p, q) ==
    LET r == get_unapplied_migrations(q)
    IN  /\ procs[p].pc = "idle"
        /\ q = "ok" => tableExists
        /\ r.tag # "Diverges"
        /\ procs' = [procs EXCEPT ![p] =
                       IF r.tag = "Ok" /\ r.val # <<>>
                       THEN [pc |-> "exec", to_apply |-> r.val, i |-> 1]
                       ELSE [pc |-> "done", to_apply |-> <<>>, i |-> 1]]
        /\ ret' = Call("get_unapplied_migrations", <<q>>, r)
        /\ UNCHANGED <<fsVars, dbVars>>

\* The migration the loop of process p is at.
AtMigration(p) ==
    procs[p].to_apply[procs[p].i]

\* The loop body going on to the next migration after a failed execute.
MigrateExecute_SkipFailed(p, execOk) ==
    LET m      == AtMigration(p)
        script == up_sql(m, connBackend)
        skip   == [pc |-> IF procs[p].i = Len(procs[p].to_apply)
                          THEN "done" ELSE "exec",
                   to_apply |-> procs[p].to_apply,
                   i |-> procs[p].i + 1]
    IN  /\ procs[p].pc = "exec"
        /\ IF script.tag # "Ok"
           THEN /\ procs' = [procs EXCEPT ![p] = skip]
                /\ ret' = Call("apply", <<m>>, script)
                /\ UNCHANGED <<fsVars, dbVars>>
           ELSE IF ~execOk
           THEN /\ procs' = [procs EXCEPT ![p] = skip]
                /\ ret' = Call("apply", <<m>>, Err("Backend"))
                /\ UNCHANGED <<fsVars, dbVars>>
           ELSE /\ procs' = [procs EXCEPT ![p].pc = "insert"]
                /\ executed' = executed \cup {m}
                /\ tableExists' =
                      (tableExists \/ AddsMigrationsTable(script.val[1]))
                /\ UNCHANGED <<fsVars, tableRows, connBackend, ret>>

\* migrate, loop body, first statement of apply: conn.execute of the forward
\* SQL.  An error leaves migrate through `?`.
MigrateExecute(p, execOk) ==
    LET m      == AtMigration(p)
        script == up_sql(m, connBackend)
    IN  /\ procs[p].pc = "exec"
        /\ IF script.tag # "Ok"
           THEN /\ procs' = [procs EXCEPT ![p].pc = "failed"]
                /\ ret' = Call("apply", <<m>>, script)
                /\ UNCHANGED <<fsVars, dbVars>>
           ELSE IF ~execOk
           THEN /\ procs' = [procs EXCEPT ![p].pc = "failed"]
                /\ ret' = Call("apply", <<m>>, Err("Backend"))
                /\ UNCHANGED <<fsVars, dbVars>>
           ELSE /\ procs' = [procs EXCEPT ![p].pc = "insert"]
                /\ executed' = executed \cup {m}
                /\ tableExists' =
                      (tableExists \/ AddsMigrationsTable(script.val[1]))
                /\ UNCHANGED <<fsVars, tableRows, connBackend, ret>>

\* The bookkeeping write as a plain insert into a table without a key: a
\* second write of a name adds a second row.
MigrateInsert_PlainInsert(p, insertOk) ==
    LET m == AtMigration(p)
    IN  /\ procs[p].pc = "insert"
        /\ IF insertOk /\ tableExists
           THEN /\ tableRows' = [tableRows EXCEPT ![m] = @ + 1]
                /\ procs' = [procs EXCEPT ![p] =
                               [pc |-> IF procs[p].i = Len(procs[p].to_apply)
                                       THEN "done" ELSE "exec",
                                to_apply |-> procs[p].to_apply,
                                i |-> procs[p].i + 1]]
                /\ ret' = Call("apply", <<m>>, Ok(<<>>))
           ELSE /\ tableRows' = tableRows
                /\ procs' = [procs EXCEPT ![p].pc = "failed"]
                /\ ret' = Call("apply", <<m>>, Err("Backend"))
        /\ UNCHANGED <<fsVars, tableExists, executed, connBackend>>

\* migrate, loop body, second statement of apply: conn.insert_or_replace of
\* the migration's name, then the next element of the list.
MigrateInsert(p, insertOk) ==
    LET m == AtMigration(p)
    IN  /\ procs[p].pc = "insert"
        /\ IF insertOk /\ tableExists
           THEN /\ tableRows' = insert_or_replace(tableRows, m)
                /\ procs' = [procs EXCEPT ![p] =
                               [pc |-> IF procs[p].i = Len(procs[p].to_apply)
                                       THEN "done" ELSE "exec",
                                to_apply |-> procs[p].to_apply,
                                i |-> procs[p].i + 1]]
                /\ ret' = Call("apply", <<m>>, Ok(<<>>))
           ELSE /\ tableRows' = tableRows
                /\ procs' = [procs EXCEPT ![p].pc = "failed"]
                /\ ret' = Call("apply", <<m>>, Err("Backend"))
        /\ UNCHANGED <<fsVars, tableExists, executed, connBackend>>

NextCli ==
    \/ \E db \in ADBs : CliBuild(db)
    \/ \E n \in AllNames : MakeMigration(n)
    \/ \E p \in Procs, q \in QueryOutcomes : MigrateStart(p, q)
    \/ \E p \in Procs, e \in BOOLEAN : MigrateExecute(p, e)
    \/ \E p \in Procs, i \in BOOLEAN : MigrateInsert(p, i)

\* The command line against one tree and one sqlite database: builds and
\* make_migration runs prepare the tree; then the processes run migrate
\* against it, interleaved statement by statement.
SpecCli ==
    InitChain /\ [][NextCli]_vars

\* The list s is in chain order, oldest first: each element is the
\* predecessor of the next.
InChainOrder(s) ==
    \A j \in 1..(Len(s) - 1) : info[s[j + 1]] = s[j]

\* Process p takes a step of its migrate run.
Steps(p) ==
    procs'[p] # procs[p]

\* C12: during one migrate run the migrations get_unapplied_migrations
\* returned are applied in chain order, oldest first; when the forward SQL of
\* a migration is executed, every earlier migration of the run has had its
\* SQL executed and its row written; the loop moves on only over a written
\* row; and a run whose apply failed executes and writes nothing further.
C12_MigrateInOrder ==
    [][/\ \A p \in Procs :
            /\ (procs[p].pc = "idle" /\ Steps(p))
               => InChainOrder(procs'[p].to_apply)
            /\ (procs[p].pc = "exec" /\ Steps(p))
               => \A j \in 1..(procs[p].i - 1) :
                     /\ procs[p].to_apply[j] \in executed
                     /\ procs[p].to_apply[j] \in rows
            /\ (procs[p].pc # "idle" /\ procs'[p].i # procs[p].i)
               => /\ procs'[p].i = procs[p].i + 1
                  /\ procs'[p].to_apply = procs[p].to_apply
                  /\ AtMigration(p) \in executed
                  /\ AtMigration(p) \in rows'
            /\ procs[p].pc = "failed" => ~Steps(p)
       /\ executed' # executed
          => \E p \in Procs :
                /\ procs[p].pc = "exec" /\ Steps(p)
                /\ executed' = executed \cup {AtMigration(p)}
       /\ tableRows' # tableRows
          => \E p \in Procs :
                /\ procs[p].pc = "insert" /\ Steps(p)
                /\ rows' = rows \cup {AtMigration(p)}]_vars

\* C12 happens: one run has applied a chain of two, root first, to the end;
\* another run failed at the root and left the second migration alone.
C12_Witness ==
    \E p \in Procs, o \in Procs :
       /\ procs[p].pc = "done"
       /\ Len(procs[p].to_apply) = 2
       /\ procs[p].i = 3
       /\ info[procs[p].to_apply[1]] = None
       /\ info[procs[p].to_apply[2]] = procs[p].to_apply[1]
       /\ rows = Elems(procs[p].to_apply)
       /\ procs[o].pc = "failed"
       /\ procs[o].to_apply = procs[p].to_apply
       /\ procs[o].i = 1

NextApply ==
    \/ \E db \in ADBs : CliBuild(db)
    \/ \E n \in AllNames : MakeMigration(n)
    \/ \E m \in Handles, e \in BOOLEAN, i \in BOOLEAN : Apply(m, e, i)

\* A caller of the library applying migrations of a tree the command line
\* made, one apply at a time.
SpecApply ==
    InitChain /\ [][NextApply]_vars

\* C13: when conn.execute of the forward SQL fails, apply returns that error
\* and writes nothing: propane_migrations is exactly as it was before the
\* call.
C13_FailedExecuteWritesNoRow ==
    [][ret'.op = "apply" =>
       \A m \in Handles, i \in BOOLEAN :
         (ret'.arg = <<m>> /\ up_sql(m, connBackend).tag = "Ok"
            /\ Apply(m, FALSE, i))
         => /\ ret'.res = Err("Backend")
            /\ UNCHANGED <<tableExists, tableRows, executed>>]_vars

\* C13 happens: the root is applied and recorded, the execute of the next
\* migration failed, and the table holds the root's row alone.
C13_Witness ==
    /\ ret.op = "apply"
    /\ ret.res = Err("Backend")
    /\ sql[ret.arg[1]][connBackend].up # <<>>
    /\ ~(ret.arg[1] \in executed)
    /\ info[ret.arg[1]] \in rows
    /\ rows = {info[ret.arg[1]]}

\* The operation list rendered into the forward SQL that is on disk for
\* migration n and backend b.
UpOps(n, b) ==
    sql[n][b].up[1].ops

\* C14: the operation list rendered into the forward SQL of a created
\* migration ends with AddTable(propane_migrations), the table with the
\* single column name TEXT PRIMARY KEY, exactly when `from` is None; a
\* migration created from a predecessor never adds the bookkeeping table.
C14_BookkeepingTableIffRoot ==
    [][ret'.op = "create_migration" =>
       \A b \in CreateBackends, n \in AllNames, f \in FromArgs :
         (ret'.arg = <<n, FromName(f)>> /\ CreateMigration(b, n, f)
            /\ ret'.res = Ok(<<n>>))
         => LET ops == UpOps(n, b)'
                adds == {k \in 1..Len(ops) :
                            /\ ops[k].op = "AddTable"
                            /\ ops[k].table.name = "propane_migrations"}
            IN  /\ f = <<>> =>
                     /\ adds = {Len(ops)}
                     /\ ops[Len(ops)].table.columns =
                           <<[name |-> "name", sqltype |-> "Text",
                              nullable |-> FALSE, pk |-> TRUE,
                              default |-> None]>>
                /\ f # <<>> => adds = {}]_vars

\* C14 happens: a chain of two whose root creates the bookkeeping table as
\* its last operation and whose second migration does not create it.
C14_Witness ==
    /\ ret.op = "create_migration"
    /\ ret.res = Ok(<<stateJson>>)
    /\ ret.arg[2] \in MigNames
    /\ ret.arg[2] # stateJson
    /\ info[stateJson] = ret.arg[2]
    /\ info[ret.arg[2]] = None
    /\ UpOps(ret.arg[2], "sqlite")[Len(UpOps(ret.arg[2], "sqlite"))] =
          AddTable(migrations_table)
    /\ ~AddsMigrationsTable(sql[stateJson]["sqlite"].up[1])

\* C15: when create_migration returns a new migration m, the current schema
\* has been written into m's directory: m.get_db() equals the current
\* schema, and a create_migration from m with the build unchanged finds an
\* empty diff.
C15_SnapshotRoundTrip ==
    (/\ ret.op = "create_migration"
     /\ ret.res.tag = "Ok"
     /\ ret.res.val # <<>>)
    => /\ get_db(ret.res.val[1]) = get_db(Current)
       /\ EmptyDiff(ret.res.val)

\* The schema of the `from` argument f: the empty ADB for None.
FromDb(f) ==
    IF f = <<>> THEN {} ELSE get_db(f[1])

\* C16: the reverse SQL of a created migration is rendered with the `to`
\* (current) schema as base and the operations diff(to_db, from_db); the
\* forward SQL with the `from` schema as base and diff(from_db, to_db)
\* (followed by the bookkeeping table for a root).
C16_DownSqlFromToSchema ==
    [][ret'.op = "create_migration" =>
       \A b \in CreateBackends, n \in AllNames, f \in FromArgs :
         (ret'.arg = <<n, FromName(f)>> /\ CreateMigration(b, n, f)
            /\ ret'.res = Ok(<<n>>))
         => LET from_db == FromDb(f)
                to_db   == get_db(Current)
                ops0    == adb_diff(from_db, to_db)
                ops     == IF f = <<>>
                           THEN Append(ops0, AddTable(migrations_table))
                           ELSE ops0
            IN  /\ sql'[n][b].up = <<create_migration_sql(from_db, ops)>>
                /\ sql'[n][b].down =
                      <<create_migration_sql(to_db,
                                             adb_diff(to_db, from_db))>>]_vars

\* C17: a migration record is immutable after creation: once its info.json
\* and a backend's SQL files are written, no create_migration call changes
\* its from_name or overwrites that backend's SQL files.
C17_RecordImmutable ==
    [][ret'.op = "create_migration" =>
       \A n \in AllNames :
          /\ info[n] # NoFile => info'[n] = info[n]
          /\ \A b \in Backends :
                sql[n][b] # NoSql => sql'[n][b] = sql[n][b]]_vars

\* The environment makes an existing state.json unreadable (its permissions
\* or its contents change): fs.read or serde_json fails from now on.
StateJsonFault ==
    /\ stateJson \notin {NoFile, Unreadable}
    /\ stateJson' = Unreadable
    /\ UNCHANGED <<dirs, tableFiles, info, sql, dbVars, procs, ret>>

NextFault ==
    \/ \E db \in ADBs : Build(db)
    \/ \E b \in CreateBackends, n \in AllNames, f \in FromArgs :
          CreateMigration(b, n, f)
    \/ GetAllMigrations
    \/ \E m \in Handles : GetMigrationsSince(m)
    \/ StateJsonFault

\* The chain operations on a tree whose state.json can become unreadable.
SpecFault ==
    InitChain /\ [][NextFault]_vars

\* C18: an absent state.json is the empty chain: get_all_migrations returns
\* the empty list.  An unreadable state.json is an error that the chain
\* operations propagate: get_all_migrations, get_migrations_since and a
\* create_migration that has a migration to write fail with the read error,
\* and none of them treats the chain as empty.
C18_UnreadableStatePropagates ==
    [][/\ (ret'.op = "get_all_migrations" /\ GetAllMigrations)
          => /\ stateJson = NoFile => ret'.res = Ok(<<>>)
             /\ stateJson = Unreadable => ret'.res.tag = "Err"
       /\ ret'.op = "get_migrations_since"
          => \A m \in Handles :
                (ret'.arg = <<m>> /\ GetMigrationsSince(m)
                   /\ stateJson = Unreadable)
                => /\ ret'.res.tag = "Err"
                   /\ ret'.res # Err("MigrationError")
       /\ ret'.op = "create_migration"
          => \A b \in CreateBackends, n \in AllNames, f \in FromArgs :
                (ret'.arg = <<n, FromName(f)>> /\ CreateMigration(b, n, f)
                   /\ stateJson = Unreadable /\ ~EmptyDiff(f))
                => ret'.res.tag = "Err"]_vars

\* C19: for a create_migration call whose name is the name of no existing
\* migration and is not "current": when the call advances state.latest,
\* get_all_migrations afterwards is get_all_migrations before with the new
\* migration appended; when it does not, get_all_migrations is unchanged.
\* (On a cyclic chain the walk returns neither before nor after.)
C19_AppendOnly ==
    [][ret'.op = "create_migration" =>
       \A b \in CreateBackends, n \in AllNames, f \in FromArgs :
         (ret'.arg = <<n, FromName(f)>> /\ CreateMigration(b, n, f)
            /\ info[n] = NoFile /\ n # Current)
         => IF stateJson' # stateJson
            THEN /\ stateJson' = n
                 /\ IF get_all_migrations.tag = "Ok"
                    THEN get_all_migrations' =
                            Ok(Append(get_all_migrations.val, n))
                    ELSE get_all_migrations'.tag = get_all_migrations.tag
            ELSE get_all_migrations' = get_all_migrations]_vars

\* C19 happens: a new name was created from the tip and is the new tip, and
\* the chain is the old chain of one followed by it.
C19_Witness ==
    /\ ret.op = "create_migration"
    /\ ret.res = Ok(<<stateJson>>)
    /\ ret.arg[1] = stateJson
    /\ ret.arg[2] \in MigNames \ {stateJson}
    /\ get_all_migrations = Ok(<<ret.arg[2], stateJson>>)
    /\ sql[stateJson]["sqlite"] # sql[ret.arg[2]]["sqlite"]

\* The migrate run of process p has executed the forward SQL of m and has
\* written its row.
HasApplied(p, m) ==
    \E j \in 1..Len(procs[p].to_apply) :
       procs[p].to_apply[j] = m /\ j < procs[p].i

\* C20: with two migrate runs interleaved against one database and chain,
\* both may execute the forward SQL of the same migration, and the second
\* bookkeeping write replaces the first: propane_migrations never holds more
\* than one row for a migration name.
C20_AtMostOneRowPerName ==
    \A n \in AllNames : tableRows[n] <= 1

\* C20 happens: both runs have executed the SQL of the same migration and
\* have both written its row, and the table holds one row for it.
C20_Witness ==
    \E m \in MigNames :
       /\ \A p \in Procs : HasApplied(p, m)
       /\ tableRows[m] = 1

====
